---------------------------- MODULE Spec2Model ----------------------------
(***************************************************************************)
(* computorV1.py: a command-line solver of polynomial equations of degree  *)
(* at most two.  main() parses the equation given as argv[1] into a map    *)
(* power -> coefficient, prints its reduced form, its degree and the       *)
(* solutions.                                                              *)
(*                                                                         *)
(* Strings are sequences of one-character strings.  A Python float is a    *)
(* decimal number m * 10^e (m an integer not divisible by 10, or 0 with    *)
(* e = 0): sums and products of short decimal literals are exact, a term   *)
(* more than FloatDigits orders of magnitude below the other is absorbed   *)
(* by a sum as in IEEE double arithmetic, quotients and square roots keep   *)
(* about eight significant digits, and a power beyond the double range    *)
(* raises OverflowError.                                                   *)
(* A dict is a function whose DOMAIN is the set of its keys.               *)
(***************************************************************************)
EXTENDS Integers, Sequences, FiniteSets, TLC

VARIABLES input, argv, pc, coefs, reduced, degree, solution, stdout, status

vars == <<input, argv, pc, coefs, reduced, degree, solution, stdout, status>>

-----------------------------------------------------------------------------
(* Characters and integers                                                 *)

DigitChars == <<"0", "1", "2", "3", "4", "5", "6", "7", "8", "9">>

IsDigit(c) == \E i \in 1..10 : DigitChars[i] = c

DigitVal(c) == (CHOOSE i \in 1..10 : DigitChars[i] = c) - 1

Abs(n) == IF n < 0 THEN -n ELSE n

Max(a, b) == IF a >= b THEN a ELSE b

RECURSIVE Pow10(_)
Pow10(n) == IF n <= 0 THEN 1 ELSE 10 * Pow10(n - 1)

RECURSIVE NumDigits(_)
NumDigits(n) == IF n < 10 THEN 1 ELSE 1 + NumDigits(n \div 10)

RECURSIVE NatStr(_)
NatStr(n) == IF n < 10 THEN <<DigitChars[n + 1]>>
             ELSE NatStr(n \div 10) \o <<DigitChars[(n % 10) + 1]>>

Zeros(n) == [i \in 1..n |-> "0"]

\* the first index from i on whose character is not in chars
RunEnd(s, i, chars) ==
    CHOOSE k \in i..(Len(s) + 1) :
        /\ k = Len(s) + 1 \/ s[k] \notin chars
        /\ \A j \in i..(k - 1) : s[j] \in chars

\* the last index up to i whose character is not in chars, 0 if none
RunStart(s, i, chars) ==
    CHOOSE k \in 0..i :
        /\ k = 0 \/ s[k] \notin chars
        /\ \A j \in (k + 1)..i : s[j] \in chars

\* s.lstrip(chars), s.rstrip(chars)
LStrip(s, chars) == SubSeq(s, RunEnd(s, 1, chars), Len(s))

RStrip(s, chars) == SubSeq(s, 1, RunStart(s, Len(s), chars))

StripLeadingZeros(s) == LStrip(s, {"0"})

StripTrailingZeros(s) == RStrip(s, {"0"})

RECURSIVE DigitsVal(_)
DigitsVal(s) == IF s = <<>> THEN 0
                ELSE 10 * DigitsVal(SubSeq(s, 1, Len(s) - 1)) + DigitVal(s[Len(s)])

-----------------------------------------------------------------------------
(* Python float arithmetic                                                 *)

FloatDigits == 17

MaxExp10 == 308

Zero == [m |-> 0, e |-> 0]

RECURSIVE Norm(_, _)
Norm(m, e) == IF m = 0 THEN Zero
              ELSE IF m % 10 = 0 THEN Norm(m \div 10, e + 1)
              ELSE [m |-> m, e |-> e]

FromInt(n) == Norm(n, 0)

SciExp(x) == NumDigits(Abs(x.m)) + x.e - 1

Neg(x) == [m |-> -x.m, e |-> x.e]

Add(x, y) ==
    IF x.m = 0 THEN y
    ELSE IF y.m = 0 THEN x
    ELSE IF SciExp(x) - SciExp(y) > FloatDigits THEN x
    ELSE IF SciExp(y) - SciExp(x) > FloatDigits THEN y
    ELSE LET e == IF x.e <= y.e THEN x.e ELSE y.e
         IN Norm(x.m * Pow10(x.e - e) + y.m * Pow10(y.e - e), e)

Sub(x, y) == Add(x, Neg(y))

Mul(x, y) == Norm(x.m * y.m, x.e + y.e)

Gt(x, y) == Sub(x, y).m > 0

Lt(x, y) == Sub(x, y).m < 0

IsIntegral(x) == x.e >= 0

RECURSIVE LongDiv(_, _, _, _)
\* long division: the quotient q and remainder r so far, k digits after
\* the point; stops at eight digits or when the division is exact
LongDiv(q, r, d, k) ==
    IF r = 0 \/ q >= 10000000
    THEN [q |-> q + (IF 2 * r >= d THEN 1 ELSE 0), k |-> k]
    ELSE LongDiv(10 * q + ((10 * r) \div d), (10 * r) % d, d, k + 1)

\* x / y for y # 0, rounded to eight significant digits
Div(x, y) ==
    LET n == Abs(x.m)
        d == Abs(y.m)
        l == LongDiv(n \div d, n % d, d, 0)
        s == IF (x.m < 0) = (y.m < 0) THEN 1 ELSE -1
    IN Norm(s * l.q, x.e - y.e - l.k)

RECURSIVE ISqrtIn(_, _, _)
ISqrtIn(n, lo, hi) ==
    IF lo >= hi THEN lo
    ELSE LET mid == (lo + hi + 1) \div 2
         IN IF mid * mid <= n THEN ISqrtIn(n, mid, hi) ELSE ISqrtIn(n, lo, mid - 1)

ISqrt(n) == ISqrtIn(n, 0, 46340)

\* x ** 0.5 for x > 0: four digits from the integer square root, doubled
\* by one Newton step (an exact root stays exact)
Sqrt(x) ==
    LET odd == x.e % 2 # 0
        m1 == IF odd THEN x.m * 10 ELSE x.m
        e1 == IF odd THEN x.e - 1 ELSE x.e
        j == Max(0, 4 - ((NumDigits(m1) + 1) \div 2))
        r == Norm(ISqrt(m1 * Pow10(2 * j)), (e1 \div 2) - j)
    IN Div(Add(r, Div(x, r)), FromInt(2))

-----------------------------------------------------------------------------
(* Conversions between strings and numbers                                 *)

IndexOf(s, c) == IF \E i \in 1..Len(s) : s[i] = c
                 THEN CHOOSE i \in 1..Len(s) : s[i] = c /\ \A k \in 1..(i - 1) : s[k] # c
                 ELSE 0

\* float(s) for s = [+-]? digits* .? digits+
PyFloat(s) ==
    LET neg == Len(s) > 0 /\ s[1] = "-"
        body == IF Len(s) > 0 /\ s[1] \in {"+", "-"} THEN Tail(s) ELSE s
        dot == IndexOf(body, ".")
        ip == IF dot = 0 THEN body ELSE SubSeq(body, 1, dot - 1)
        fp == IF dot = 0 THEN <<>> ELSE SubSeq(body, dot + 1, Len(body))
        all == ip \o fp
        sig == StripTrailingZeros(all)
        m == DigitsVal(StripLeadingZeros(sig))
    IN IF m = 0 THEN Zero
       ELSE Norm(IF neg THEN -m ELSE m, (Len(all) - Len(sig)) - Len(fp))

\* int(s) for a string of digits
PyInt(s) == DigitsVal(s)

\* str(int(x)) for an integral float x
IntStr(x) == (IF x.m < 0 THEN <<"-">> ELSE <<>>) \o NatStr(Abs(x.m)) \o
             (IF x.m = 0 THEN <<>> ELSE Zeros(x.e))

\* str(x) for a float x that is not integral: repr, which switches to the
\* exponent notation below 1e-04
FloatStr(x) ==
    LET digs == NatStr(Abs(x.m))
        n == Len(digs)
        x10 == n + x.e - 1
        sgn == IF x.m < 0 THEN <<"-">> ELSE <<>>
        ex == NatStr(Abs(x10))
    IN IF x10 >= 0
       THEN sgn \o SubSeq(digs, 1, x10 + 1) \o <<".">> \o SubSeq(digs, x10 + 2, n)
       ELSE IF x10 >= -4
       THEN sgn \o <<"0", ".">> \o Zeros(-x10 - 1) \o digs
       ELSE sgn \o <<digs[1]>> \o (IF n > 1 THEN <<".">> \o Tail(digs) ELSE <<>>)
            \o <<"e", "-">> \o (IF Len(ex) < 2 THEN <<"0">> ELSE <<>>) \o ex

\* "{0:.6f}".format(num)
Fixed6(num) ==
    LET a == Abs(num.m)
        drop == -num.e - 6
        q == IF drop <= 0 THEN a * Pow10(-drop)
             ELSE IF drop > NumDigits(a) THEN 0
             ELSE LET d == Pow10(drop)
                      f == a \div d
                      r == a % d
                  IN IF 2 * r > d \/ (2 * r = d /\ f % 2 = 1) THEN f + 1 ELSE f
        frac == NatStr(q % 1000000)
    IN (IF num.m < 0 THEN <<"-">> ELSE <<>>) \o NatStr(q \div 1000000) \o <<".">>
       \o Zeros(6 - Len(frac)) \o frac

my_abs(number) == IF number.m < 0 THEN Neg(number) ELSE number

format_coefficient(coef) == IF IsIntegral(coef) THEN IntStr(coef) ELSE FloatStr(coef)

format_number(num) == IF IsIntegral(num) THEN IntStr(num)
                      ELSE RStrip(RStrip(Fixed6(num), {"0"}), {"."})

-----------------------------------------------------------------------------
(* Dictionaries                                                            *)

EmptyDict == <<>>

Get(d, k, default) == IF k \in DOMAIN d THEN d[k] ELSE default

Put(d, k, v) == [x \in (DOMAIN d) \cup {k} |-> IF x = k THEN v ELSE d[x]]

-----------------------------------------------------------------------------
(* parse_side: re.findall(r'([+-]?)(\d*\.?\d+)?\*?X\^(\d+)', side)         *)

At(s, i) == IF i >= 1 /\ i <= Len(s) THEN s[i] ELSE ""

DigitSet == {DigitChars[i] : i \in 1..10}

\* \d*\.?\d+ matches the whole of c
IsCoefficient(c) ==
    /\ Len(c) > 0
    /\ IsDigit(c[Len(c)])
    /\ Cardinality({i \in 1..Len(c) : c[i] = "."}) <= 1

\* The match of the pattern that starts at index i, if there is one.  The
\* sign is taken when present; the coefficient, ending in a digit and
\* followed by '*' or 'X', can only be the whole run of digits and dots
\* after the sign; the power takes every digit that follows 'X^'.
MatchAt(s, i) ==
    LET j == IF At(s, i) \in {"+", "-"} THEN i + 1 ELSE i
        k == RunEnd(s, j, DigitSet \cup {"."})
        x == IF At(s, k) = "*" THEN k + 1 ELSE k
        p == x + 2
        q == RunEnd(s, p, DigitSet)
    IN IF /\ (k = j \/ IsCoefficient(SubSeq(s, j, k - 1)))
          /\ At(s, x) = "X"
          /\ At(s, x + 1) = "^"
          /\ q > p
       THEN [ok |-> TRUE, next |-> q,
             term |-> <<SubSeq(s, i, j - 1), SubSeq(s, j, k - 1), SubSeq(s, p, q - 1)>>]
       ELSE [ok |-> FALSE, next |-> i + 1, term |-> <<>>]

\* the leftmost index from i on where the pattern matches, Len(s) + 1 if
\* it matches nowhere
NextMatch(s, i) ==
    CHOOSE k \in i..(Len(s) + 1) :
        /\ k = Len(s) + 1 \/ MatchAt(s, k).ok
        /\ \A j \in i..(k - 1) : ~MatchAt(s, j).ok

RECURSIVE FindAll(_, _)
\* the matches from index i on, from left to right, none overlapping
FindAll(s, i) ==
    LET k == NextMatch(s, i)
    IN IF k > Len(s) THEN <<>>
       ELSE <<MatchAt(s, k).term>> \o FindAll(s, MatchAt(s, k).next)

RECURSIVE SumTerms(_, _)
\* the loop of parse_side over the matched terms, from the dictionary cs
SumTerms(terms, cs) ==
    IF terms = <<>> THEN cs
    ELSE LET term == terms[1]
             coef_str == IF term[2] = <<>> THEN <<"1">> ELSE term[2]
             sign == IF term[1] # <<>> THEN term[1] ELSE <<"+">>
             coef == PyFloat(sign \o coef_str)
             power == PyInt(term[3])
         IN SumTerms(Tail(terms), Put(cs, power, Add(Get(cs, power, Zero), coef)))

parse_side(side) == SumTerms(FindAll(side, 1), EmptyDict)

-----------------------------------------------------------------------------
(* parse_polynomial                                                        *)

\* s.replace(c, "")
Remove(s, c) == SelectSeq(s, LAMBDA x : x # c)

RECURSIVE Split(_, _)
\* s.split(c)
Split(s, c) ==
    LET i == IndexOf(s, c)
    IN IF i = 0 THEN <<s>>
       ELSE <<SubSeq(s, 1, i - 1)>> \o Split(SubSeq(s, i + 1, Len(s)), c)

\* the right side added instead of subtracted
SubtractRight_added(left_terms, right_terms) ==
    [power \in (DOMAIN left_terms) \cup (DOMAIN right_terms) |->
        Add(Get(left_terms, power, Zero), Get(right_terms, power, Zero))]

SubtractRight(left_terms, right_terms) ==
    [power \in (DOMAIN left_terms) \cup (DOMAIN right_terms) |->
        IF power \in DOMAIN right_terms
        THEN Sub(Get(left_terms, power, Zero), right_terms[power])
        ELSE left_terms[power]]

\* the spaces left in the equation
parse_polynomial_spaces_kept(equation) ==
    LET sides == Split(equation, "=")
    IN IF Len(sides) # 2
       THEN [raised |-> "ValueError", coefs |-> EmptyDict]
       ELSE [raised |-> "",
             coefs |-> SubtractRight(parse_side(sides[1]), parse_side(sides[2]))]

\* [raised |-> the exception of the unpacking of split('='), or "" ; coefs]
parse_polynomial(equation) ==
    LET sides == Split(Remove(equation, " "), "=")
    IN IF Len(sides) # 2
       THEN [raised |-> "ValueError", coefs |-> EmptyDict]
       ELSE [raised |-> "",
             coefs |-> SubtractRight(parse_side(sides[1]), parse_side(sides[2]))]

-----------------------------------------------------------------------------
(* reduced_form                                                            *)

IsPrefixAt(s, i, old) ==
    /\ i + Len(old) - 1 <= Len(s)
    /\ \A k \in 1..Len(old) : s[i + k - 1] = old[k]

RECURSIVE ReplaceFrom(_, _, _, _)
\* from index i: up to the leftmost occurrence of old, new, and on after it
ReplaceFrom(s, i, old, new) ==
    LET occ == {k \in i..Len(s) : IsPrefixAt(s, k, old)}
    IN IF occ = {} THEN SubSeq(s, i, Len(s))
       ELSE LET k == CHOOSE k \in occ : \A x \in occ : k <= x
            IN SubSeq(s, i, k - 1) \o new \o ReplaceFrom(s, k + Len(old), old, new)

\* s.replace(old, new)
Replace(s, old, new) == ReplaceFrom(s, 1, old, new)

RECURSIVE Join(_, _)
\* sep.join(parts)
Join(parts, sep) ==
    IF parts = <<>> THEN <<>>
    ELSE IF Len(parts) = 1 THEN parts[1]
    ELSE parts[1] \o sep \o Join(Tail(parts), sep)

Whitespace == {" ", "\t", "\n", "\r"}

\* s.strip()
Strip(s) == RStrip(LStrip(s, Whitespace), Whitespace)

RECURSIVE Sorted(_)
\* sorted(keys)
Sorted(keys) ==
    IF keys = {} THEN <<>>
    ELSE LET least == CHOOSE k \in keys : \A x \in keys : k <= x
         IN <<least>> \o Sorted(keys \ {least})

RECURSIVE ReducedTerms(_, _)
\* the loop of reduced_form over the sorted powers
ReducedTerms(cs, powers) ==
    IF powers = <<>> THEN <<>>
    ELSE LET power == powers[1]
             coef == cs[power]
             sign == IF Gt(coef, Zero) THEN <<"+">> ELSE <<"-">>
             coef_str == format_coefficient(my_abs(coef))
             term == sign \o <<" ">> \o coef_str \o <<" ", "*", " ", "X", "^">>
                     \o NatStr(power)
         IN (IF coef.m = 0 THEN <<>> ELSE <<term>>) \o ReducedTerms(cs, Tail(powers))

\* the leading '+' of the first term left in place
reduced_form_leading_plus(cs) ==
    IF \A p \in DOMAIN cs : cs[p].m = 0
    THEN <<"0", " ", "=", " ", "0">>
    ELSE LET terms == ReducedTerms(cs, Sorted(DOMAIN cs))
         IN Strip(Replace(Join(terms, <<" ">>), <<"+", " ", "-">>, <<"-", " ">>))
            \o <<" ", "=", " ", "0">>

reduced_form(cs) ==
    IF \A p \in DOMAIN cs : cs[p].m = 0
    THEN <<"0", " ", "=", " ", "0">>
    ELSE LET terms == ReducedTerms(cs, Sorted(DOMAIN cs))
         IN Strip(LStrip(Replace(Join(terms, <<" ">>), <<"+", " ", "-">>, <<"-", " ">>),
                         {"+", " "}))
            \o <<" ", "=", " ", "0">>

-----------------------------------------------------------------------------
(* solve_polynomial, solve_linear, solve_quadratic                         *)

\* What a solver call produces: the exception it raised ("" when it
\* returned), the kind of the outcome, the function whose branch produced
\* it, whether solve_quadratic handed over to solve_linear, the fixed text,
\* the formatted numbers after it and the numbers themselves.
Outcome(kind, by, msg, lines, roots) ==
    [raised |-> "", kind |-> kind, by |-> by, delegated |-> FALSE,
     msg |-> msg, lines |-> lines, roots |-> roots]

Raised(exc, by) ==
    [raised |-> exc, kind |-> "raised", by |-> by, delegated |-> FALSE,
     msg |-> "", lines |-> <<>>, roots |-> <<>>]

Infinite(by) == Outcome("infinite", by, "Infinite solutions, since 0 = 0.", <<>>, <<>>)

Inconsistent(by) ==
    Outcome("inconsistent", by, "No solution, the equation is inconsistent.", <<>>, <<>>)

solve_linear(cs) ==
    LET a == Get(cs, 1, Zero)
        b == Get(cs, 0, Zero)
    IN IF a.m = 0
       THEN IF b.m = 0 THEN Infinite("solve_linear") ELSE Inconsistent("solve_linear")
       ELSE LET sol == Div(Neg(b), a)
            IN Outcome("single", "solve_linear", "The solution is:",
                       <<format_number(sol)>>, <<sol>>)

\* the root of -sqrt(D) reported first
RealRoots_swapped(a, b, sqrt_discriminant) ==
    <<Div(Sub(Neg(b), sqrt_discriminant), Mul(FromInt(2), a)),
      Div(Add(Neg(b), sqrt_discriminant), Mul(FromInt(2), a))>>

\* the two real roots in the order solve_quadratic reports them
RealRoots(a, b, sqrt_discriminant) ==
    <<Div(Add(Neg(b), sqrt_discriminant), Mul(FromInt(2), a)),
      Div(Sub(Neg(b), sqrt_discriminant), Mul(FromInt(2), a))>>

solve_quadratic(cs) ==
    LET a == Get(cs, 2, Zero)
        b == Get(cs, 1, Zero)
        c == Get(cs, 0, Zero)
        b2 == Mul(b, b)
        discriminant == Sub(b2, Mul(Mul(FromInt(4), a), c))
    IN IF a.m = 0 THEN [solve_linear(cs) EXCEPT !.delegated = TRUE]
       ELSE IF b2.m # 0 /\ SciExp(b2) > MaxExp10
       THEN Raised("OverflowError", "solve_quadratic")
       ELSE IF discriminant.m > 0
       THEN LET sols == RealRoots(a, b, Sqrt(discriminant))
            IN Outcome("two_real", "solve_quadratic",
                       "Discriminant is strictly positive, the two solutions are:",
                       <<format_number(sols[1]), format_number(sols[2])>>, sols)
       ELSE IF discriminant.m = 0
       THEN LET sol == Div(Neg(b), Mul(FromInt(2), a))
            IN Outcome("one_real", "solve_quadratic",
                       "Discriminant is zero, the solution is:",
                       <<format_number(sol)>>, <<sol>>)
       ELSE LET real_part == Div(Neg(b), Mul(FromInt(2), a))
                imaginary_part == Div(Sqrt(Neg(discriminant)), Mul(FromInt(2), a))
                real_str == format_number(real_part)
                imag_str == format_number(imaginary_part)
            IN Outcome("two_complex", "solve_quadratic",
                       "Discriminant is strictly negative, the two complex solutions are:",
                       <<real_str \o <<" ", "+", " ">> \o imag_str \o <<"i">>,
                         real_str \o <<" ", "-", " ">> \o imag_str \o <<"i">>>>,
                       <<real_part, imaginary_part>>)

solve_polynomial(cs, deg) ==
    IF deg > 2
    THEN Outcome("cant_solve", "solve_polynomial",
                 "The polynomial degree is strictly greater than 2, I can't solve.",
                 <<>>, <<>>)
    ELSE IF deg = 2 THEN solve_quadratic(cs)
    ELSE IF deg = 1 THEN solve_linear(cs)
    ELSE IF deg = 0
    THEN IF Get(cs, 0, Zero).m = 0 THEN Infinite("solve_polynomial")
         ELSE Inconsistent("solve_polynomial")
    ELSE Infinite("solve_polynomial")

\* the smallest power with a non-zero coefficient
Degree_smallest(cs) ==
    IF cs # EmptyDict /\ \E p \in DOMAIN cs : cs[p].m # 0
    THEN LET nz == {p \in DOMAIN cs : cs[p].m # 0}
         IN CHOOSE p \in nz : \A x \in nz : p <= x
    ELSE 0

\* the degree main determines from the coefficients
Degree(cs) ==
    IF cs # EmptyDict /\ \E p \in DOMAIN cs : cs[p].m # 0
    THEN LET nz == {p \in DOMAIN cs : cs[p].m # 0}
         IN CHOOSE p \in nz : \A x \in nz : x <= p
    ELSE 0

-----------------------------------------------------------------------------
(* The inputs: equations written as sequences of terms                     *)

MaxTerms == 3

HugeZeros == 155

MaxCoef == 2

MaxDegree == 3

\* a literal whose square is beyond the range of a double
Huge == <<"1">> \o Zeros(HugeZeros)

Term(sign, coef, star, power) ==
    [sign |-> sign, coef |-> coef, star |-> star, power |-> power]

\* X^2, -2X^1, +X^0, 0.00001*X^3, +10...0*X^1
Terms ==
    { Term(<<>>, <<>>, <<>>, <<"2">>),
      Term(<<"-">>, <<"2">>, <<>>, <<"1">>),
      Term(<<"+">>, <<>>, <<>>, <<"0">>),
      Term(<<>>, <<"0", ".", "0", "0", "0", "0", "1">>, <<"*">>, <<"3">>),
      Term(<<"+">>, Huge, <<"*">>, <<"1">>) }

RECURSIVE SeqsUpTo(_, _)
\* the sequences of at most n elements of S
SeqsUpTo(S, n) ==
    IF n <= 0 THEN {<<>>}
    ELSE LET shorter == SeqsUpTo(S, n - 1)
         IN shorter \cup {<<x>> \o q : x \in S, q \in {r \in shorter : Len(r) = n - 1}}

NoWs == <<>>

Space == <<" ">>

Tab == <<"\t">>

\* An equation: the terms left and right of the sign '=', the number of
\* signs '=' written (one in a well-formed equation) and the whitespace
\* written between the tokens.
Variants == {<<1, NoWs>>, <<1, Space>>, <<1, Tab>>, <<0, NoWs>>, <<2, NoWs>>}

Inputs ==
    UNION {{[left |-> l, right |-> r, eqs |-> v[1], ws |-> v[2]] :
                r \in SeqsUpTo(Terms, MaxTerms - Len(l)), v \in Variants} :
           l \in SeqsUpTo(Terms, MaxTerms)}

NonEmpty(parts) == SelectSeq(parts, LAMBDA x : x # <<>>)

RECURSIVE Tokens(_)
\* the tokens of the terms of a side: sign, coefficient, '*', 'X^power'
Tokens(side) ==
    IF side = <<>> THEN <<>>
    ELSE LET t == side[1]
         IN NonEmpty(<<t.sign, t.coef, t.star, <<"X", "^">> \o t.power>>)
            \o Tokens(Tail(side))

\* the string an equation is written as
Written(eq, ws) ==
    LET l == Tokens(eq.left)
        r == Tokens(eq.right)
    IN Join(IF eq.eqs = 0 THEN l \o r
            ELSE IF eq.eqs = 1 THEN l \o <<<<"=">>>> \o r
            ELSE l \o <<<<"=">>>> \o r \o <<<<"=">>>>, ws)

NoInput == [left |-> <<>>, right |-> <<>>, eqs |-> 0, ws |-> NoWs]

-----------------------------------------------------------------------------
(* main                                                                    *)

NoOutcome == Raised("", "")

Running == [exit |-> -1, uncaught |-> "", at |-> ""]

Exit(code, exc, at) == [exit |-> code, uncaught |-> exc, at |-> at]

Line(tag, text) == [line |-> tag, text |-> text]

\* the program is started with the equation as argument, or without one
Init ==
    /\ \/ /\ input \in Inputs
          /\ argv = <<Written(input, input.ws)>>
       \/ /\ input = NoInput
          /\ argv = <<>>
    /\ pc = "start"
    /\ coefs = EmptyDict
    /\ reduced = <<>>
    /\ degree = 0
    /\ solution = NoOutcome
    /\ stdout = <<>>
    /\ status = Running

\* len(sys.argv) < 2: the usage message and sys.exit(1)
Usage ==
    /\ pc = "start"
    /\ argv = <<>>
    /\ stdout' = Append(stdout, Line("usage", <<>>))
    /\ status' = Exit(1, "", "usage")
    /\ pc' = "exit"
    /\ UNCHANGED <<input, argv, coefs, reduced, degree, solution>>

\* coefs = parse_polynomial(equation); an exception of the call is not
\* caught: the interpreter prints the traceback and exits with status 1
ParsePolynomial ==
    /\ pc = "start"
    /\ argv # <<>>
    /\ LET p == parse_polynomial(argv[1])
       IN IF p.raised # ""
          THEN /\ status' = Exit(1, p.raised, "parse")
               /\ pc' = "exit"
               /\ UNCHANGED coefs
          ELSE /\ coefs' = p.coefs
               /\ pc' = "parsed"
               /\ UNCHANGED status
    /\ UNCHANGED <<input, argv, reduced, degree, solution, stdout>>

\* reduced = reduced_form(coefs); print(f"Reduced form: {reduced}")
ReducedForm ==
    /\ pc = "parsed"
    /\ reduced' = reduced_form(coefs)
    /\ stdout' = Append(stdout, Line("reduced", reduced'))
    /\ pc' = "reduced"
    /\ UNCHANGED <<input, argv, coefs, degree, solution, status>>

\* the degree and print(f"Polynomial degree: {degree}")
PolynomialDegree ==
    /\ pc = "reduced"
    /\ degree' = Degree(coefs)
    /\ stdout' = Append(stdout, Line("degree", NatStr(degree')))
    /\ pc' = "degree"
    /\ UNCHANGED <<input, argv, coefs, reduced, solution, status>>

\* solution = solve_polynomial(coefs, degree); print(solution); an
\* exception of the call is not caught
SolvePolynomial ==
    /\ pc = "degree"
    /\ solution' = solve_polynomial(coefs, degree)
    /\ IF solution'.raised # ""
       THEN /\ status' = Exit(1, solution'.raised, "solve")
            /\ UNCHANGED stdout
       ELSE /\ status' = Exit(0, "", "solve")
            /\ stdout' = Append(stdout, Line("solution", Join(solution'.lines, <<"\n">>)))
    /\ pc' = "exit"
    /\ UNCHANGED <<input, argv, coefs, reduced, degree>>

Next == Usage \/ ParsePolynomial \/ ReducedForm \/ PolynomialDegree \/ SolvePolynomial

Spec == Init /\ [][Next]_vars

-----------------------------------------------------------------------------
(* solve_polynomial called on its own, with any coefficients and degree    *)

Coefficients == {FromInt(n) : n \in (-MaxCoef)..MaxCoef}

\* the dictionaries with keys among 0, 1, 2; the coefficient of X^1 may be
\* the huge literal
Dicts ==
    LET absent == [m |-> 0, e |-> -1]
        total == [{0, 1, 2} -> Coefficients \cup {absent}]
        huge == {[f EXCEPT ![1] = PyFloat(Huge)] : f \in total}
    IN {[p \in {q \in 0..2 : f[q] # absent} |-> f[p]] : f \in total \cup huge}

InitSolve ==
    /\ input = NoInput
    /\ argv = <<>>
    /\ pc = "call"
    /\ coefs \in Dicts
    /\ reduced = <<>>
    /\ degree \in 0..MaxDegree
    /\ solution = NoOutcome
    /\ stdout = <<>>
    /\ status = Running

CallSolvePolynomial ==
    /\ pc = "call"
    /\ solution' = solve_polynomial(coefs, degree)
    /\ pc' = "returned"
    /\ UNCHANGED <<input, argv, coefs, reduced, degree, stdout, status>>

NextSolve == CallSolvePolynomial

SpecSolve == InitSolve /\ [][NextSolve]_vars

-----------------------------------------------------------------------------
(* Properties                                                              *)

\* main has parsed the equation
Parsed == pc \in {"parsed", "reduced", "degree"} \/ (pc = "exit" /\ status.at = "solve")

\* main has printed the reduced form
ReducedPrinted == pc \in {"reduced", "degree"} \/ (pc = "exit" /\ status.at = "solve")

\* main has determined the degree
DegreeKnown == pc = "degree" \/ (pc = "exit" /\ status.at = "solve")

\* main has called solve_polynomial
Solved == pc = "exit" /\ status.at = "solve"

\* the signed coefficient a term stands for: no coefficient is 1, no sign +
TermValue(t) == PyFloat((IF t.sign = <<>> THEN <<"+">> ELSE t.sign)
                        \o (IF t.coef = <<>> THEN <<"1">> ELSE t.coef))

TermPower(t) == PyInt(t.power)

PowersOf(side) == {TermPower(side[i]) : i \in 1..Len(side)}

RECURSIVE SideSum(_, _, _)
\* the sum of the terms of power p of a side, from the sum acc so far
SideSum(side, p, acc) ==
    IF side = <<>> THEN acc
    ELSE SideSum(Tail(side), p,
                 IF TermPower(side[1]) = p THEN Add(acc, TermValue(side[1])) ELSE acc)

\* Every term after the first is told from the one before it: it starts
\* with a sign, '.', '*' or 'X'.  (A term that starts with a digit right
\* after a power is the string of a longer power: X^2 0.1*X^3 is written
\* as X^20 .1*X^3 is.)
TermsApart(side) ==
    \A i \in 2..Len(side) : ~(side[i].sign = <<>> /\ side[i].coef # <<>>
                               /\ IsDigit(side[i].coef[1]))

AllZero(cs) == \A p \in DOMAIN cs : cs[p].m = 0

SameMap(c1, c2) ==
    \A p \in (DOMAIN c1) \cup (DOMAIN c2) : Get(c1, p, Zero) = Get(c2, p, Zero)

\* C1: for an equation with one '=' whose sides are sequences of terms, the
\* entry of every power in the map parse_polynomial returns (0 when absent)
\* is the sum of the left terms of that power minus the sum of the right
\* terms of that power.
C1_ParseSubtractsSides ==
    (/\ Parsed
     /\ input.eqs = 1
     /\ input.ws \in {NoWs, Space}
     /\ TermsApart(input.left)
     /\ TermsApart(input.right))
    => \A p \in (DOMAIN coefs) \cup PowersOf(input.left) \cup PowersOf(input.right) :
          Get(coefs, p, Zero) = Sub(SideSum(input.left, p, Zero),
                                    SideSum(input.right, p, Zero))

\* C1 witness: a power with terms on both sides, written with spaces, whose
\* difference is not zero
C1_Witness ==
    /\ Parsed
    /\ input.eqs = 1
    /\ input.ws = Space
    /\ TermsApart(input.left)
    /\ TermsApart(input.right)
    /\ Len(input.left) = 2
    /\ \E p \in PowersOf(input.left) \cap PowersOf(input.right) :
          p \in DOMAIN coefs /\ coefs[p].m # 0

\* C2: an equation with no '=' or more than one is rejected with a
\* non-zero exit status and without an uncaught exception.
C2_MalformedEquationRejected ==
    (pc = "exit" /\ argv # <<>> /\ input.eqs # 1)
    => (status.exit # 0 /\ status.uncaught = "")

\* the outcome the dispatch table gives for a degree and coefficients
LinearKind(a, b) ==
    IF a.m # 0 THEN "single" ELSE IF b.m = 0 THEN "infinite" ELSE "inconsistent"

TableKind(cs, deg) ==
    LET c2 == Get(cs, 2, Zero)
        c1 == Get(cs, 1, Zero)
        c0 == Get(cs, 0, Zero)
        D == Sub(Mul(c1, c1), Mul(FromInt(4), Mul(c2, c0)))
    IN IF deg > 2 THEN "cant_solve"
       ELSE IF deg = 2
       THEN IF c2.m = 0 THEN LinearKind(c1, c0)
            ELSE IF D.m > 0 THEN "two_real"
            ELSE IF D.m = 0 THEN "one_real"
            ELSE "two_complex"
       ELSE IF deg = 1 THEN LinearKind(c1, c0)
       ELSE IF c0.m = 0 THEN "infinite" ELSE "inconsistent"

\* C3: for every dictionary and degree, solve_polynomial returns the outcome
\* of the kind the dispatch table gives; a single solution is -b/a.
C3_SolveFollowsTable ==
    pc = "returned"
    => /\ solution.raised = ""
       /\ solution.kind = TableKind(coefs, degree)
       /\ solution.kind = "single"
          => solution.roots = <<Div(Neg(Get(coefs, 0, Zero)), Get(coefs, 1, Zero))>>

\* C4: the degree main computes is 0 when every coefficient is zero, and
\* otherwise the largest power whose coefficient is not zero.
C4_DegreeIsLargestNonZeroPower ==
    DegreeKnown
    => IF AllZero(coefs) THEN degree = 0
       ELSE /\ Get(coefs, degree, Zero).m # 0
            /\ \A p \in DOMAIN coefs : coefs[p].m # 0 => p <= degree

\* C4 witness: a zero coefficient at a power above the degree
C4_Witness ==
    /\ DegreeKnown
    /\ degree > 0
    /\ \E p \in DOMAIN coefs : p > degree /\ coefs[p].m = 0

RECURSIVE CanonicalTerms(_, _, _)
\* the terms of the powers ps, each after a '-' when negative and after a
\* '+' when positive and not the first
CanonicalTerms(cs, ps, first) ==
    IF ps = <<>> THEN <<>>
    ELSE LET c == cs[ps[1]]
         IN (IF first THEN <<>> ELSE <<" ">>)
            \o (IF c.m < 0 THEN <<"-", " ">> ELSE IF first THEN <<>> ELSE <<"+", " ">>)
            \o format_coefficient(my_abs(c)) \o <<" ", "*", " ", "X", "^">> \o NatStr(ps[1])
            \o CanonicalTerms(cs, Tail(ps), FALSE)

\* C5: the reduced form is "0 = 0" when every coefficient is zero, and
\* otherwise the terms of the non-zero coefficients by ascending power,
\* each with its magnitude, '-' before a negative term, '+' before a
\* positive term but the first, and " = 0" at the end.
C5_ReducedFormIsCanonical ==
    ReducedPrinted
    => reduced = IF AllZero(coefs) THEN <<"0", " ", "=", " ", "0">>
                 ELSE CanonicalTerms(coefs, Sorted({p \in DOMAIN coefs : coefs[p].m # 0}),
                                     TRUE) \o <<" ", "=", " ", "0">>

\* C5 witness: a first term that is positive, of magnitude 1, and a
\* negative term after it
C5_Witness ==
    /\ ReducedPrinted
    /\ \E p, q \in DOMAIN coefs :
          /\ p < q
          /\ coefs[p] = FromInt(1)
          /\ coefs[q].m < 0
          /\ \A x \in DOMAIN coefs : x < p => coefs[x].m = 0

\* C6: parsing the reduced form again gives the coefficients it was made
\* from (a missing entry counting as 0).
C6_ReducedFormRoundTrips ==
    ReducedPrinted => SameMap(parse_polynomial(reduced).coefs, coefs)

\* C7 as claimed: with a positive discriminant the first root reported is
\* the larger one.
C7_FirstRootIsLarger ==
    (pc = "returned" /\ solution.kind = "two_real")
    => Gt(solution.roots[1], solution.roots[2])

\* C7 as amended: with a positive discriminant the first root reported is
\* the larger one when a > 0 and the smaller one when a < 0.
C7_FirstRootOrderFollowsSign ==
    (pc = "returned" /\ solution.kind = "two_real")
    => /\ Get(coefs, 2, Zero).m > 0 => Gt(solution.roots[1], solution.roots[2])
       /\ Get(coefs, 2, Zero).m < 0 => Lt(solution.roots[1], solution.roots[2])

\* C7 witness: two real roots of an equation with a < 0
C7_Witness ==
    /\ pc = "returned"
    /\ solution.kind = "two_real"
    /\ Get(coefs, 2, Zero).m < 0

RECURSIVE Tags(_)
Tags(lines) == IF lines = <<>> THEN <<>> ELSE <<lines[1].line>> \o Tags(Tail(lines))

\* C8: a run with an equation ends with all three lines of the report
\* printed, in order, or with none of them.
C8_ReportIsAllOrNothing ==
    (pc = "exit" /\ argv # <<>>)
    => Tags(stdout) \in {<<>>, <<"reduced", "degree", "solution">>}

\* C9 as claimed: whitespace of any kind between the tokens leaves the
\* coefficients unchanged.
C9_WhitespaceIgnored ==
    (Parsed /\ input.eqs = 1)
    => coefs = parse_polynomial(Written(input, NoWs)).coefs

\* C9 as amended: spaces between the tokens leave the coefficients
\* unchanged.
C9_SpacesIgnored ==
    (Parsed /\ input.eqs = 1 /\ input.ws = Space)
    => coefs = parse_polynomial(Written(input, NoWs)).coefs

\* C9 witness: an equation written with spaces inside a term that has a
\* sign and a coefficient
C9_Witness ==
    /\ Parsed
    /\ input.eqs = 1
    /\ input.ws = Space
    /\ \E i \in 1..Len(input.left) :
          input.left[i].sign # <<>> /\ input.left[i].coef # <<>>
    /\ \E p \in DOMAIN coefs : coefs[p].m < 0

\* C10: called with the degree main computed, solve_quadratic never hands
\* over to solve_linear: a run of degree 2 ends in one of the three
\* outcomes of the discriminant, a run of degree 1 ends in a single
\* solution, and the equation is found to have infinitely many solutions or
\* none only at degree 0.
C10_FallbacksNeverTaken ==
    Solved
    => /\ ~solution.delegated
       /\ degree = 2 => /\ solution.by = "solve_quadratic"
                        /\ solution.kind \in {"two_real", "one_real", "two_complex"}
       /\ degree = 1 => solution.kind = "single"
       /\ solution.kind \in {"infinite", "inconsistent"}
          => degree = 0 /\ solution.by = "solve_polynomial"

=============================================================================
